---- MODULE Spec2Model ----
(***************************************************************************)
(* Model of classfill and minorityclass of EnigmaNet                       *)
(* (enigmalibrary/enigmatransforms.py and its copy                         *)
(* transformations/enigmatransformations.py).                              *)
(*                                                                         *)
(* A dataframe is a column index (a sequence of labels) and a function     *)
(* from row numbers 1..n to rows; a row maps every column label to a      *)
(* cell.  A cell is a rational <<num, den>> in lowest terms with den > 0,  *)
(* or NaN, written <<0, 0>>.  Category labels (site, class) are numbers    *)
(* too.  Means are computed exactly; floating-point rounding is not        *)
(* modelled.                                                               *)
(***************************************************************************)
EXTENDS Integers, Sequences, FiniteSets, TLC

VARIABLES columns, dFrame0, classCol, siteCol, idxRange,
          dFrame, error, result, calls, op,
          dFrameT, errorT, resultT, callsT

vars == <<columns, dFrame0, classCol, siteCol, idxRange,
          dFrame, error, result, calls, op,
          dFrameT, errorT, resultT, callsT>>

(***************************************************************************)
(* Bounds and input families                                               *)
(***************************************************************************)
MaxRows == 3

MaxRowsErr == 2

SiteLabels == {1, 2}

ClassLabels == {0, 1}

(* alphabetical order of every label used as a column label or as a       *)
(* boundary of idxRange                                                    *)
LabelOrder == <<"age", "class", "f0", "f1", "f2", "f3", "site">>

UnsortedLayout == <<"site", "class", "f1", "f2", "age">>

SortedLayout == <<"age", "class", "f1", "f2", "site">>

Layouts == {UnsortedLayout, SortedLayout}

ValidRanges == {<<"f1", "f1">>, <<"f1", "f2">>}

(* ranges with a boundary label that is no column of the frame *)
AbsentRanges == {<<"f0", "f2">>, <<"f1", "f3">>}

ClassColNames == {"class", "group"}

SiteColNames == {"site", "scanner"}

(***************************************************************************)
(* Cells                                                                   *)
(***************************************************************************)
NaN == <<0, 0>>

Num(k) == <<k, 1>>

(* Series.isnull *)
IsNull(v) == v[2] = 0

EqNaNEqual(a, b) == a = b

(* elementwise == of a Series with a scalar: NaN compares unequal to       *)
(* everything, itself included                                             *)
Eq(a, b) == ~IsNull(a) /\ ~IsNull(b) /\ a = b

Abs(x) == IF x < 0 THEN -x ELSE x

RECURSIVE Gcd(_, _)
Gcd(a, b) == IF b = 0 THEN a ELSE Gcd(b, a % b)

Norm(n, d) == LET g == Gcd(Abs(n), d) IN <<n \div g, d \div g>>

Add(a, b) == Norm(a[1] * b[2] + b[1] * a[2], a[2] * b[2])

DivInt(a, k) == Norm(a[1], a[2] * k)

(***************************************************************************)
(* Frame access                                                            *)
(***************************************************************************)
NRows(frame) == Len(frame)

ColSet(cols) == {cols[i] : i \in 1..Len(cols)}

Pos(cols, label) == CHOOSE i \in 1..Len(cols) : cols[i] = label

Rank(label) == CHOOSE i \in 1..Len(LabelOrder) : LabelOrder[i] = label

(* Index.is_monotonic_increasing *)
IsMonotonicIncreasing(cols) ==
    \A i \in 1..(Len(cols) - 1) : Rank(cols[i]) <= Rank(cols[i + 1])

(* Index.searchsorted(label, side) on an increasing index, as a 1-based    *)
(* count of the labels that sort before the insertion point                *)
SearchSorted(cols, label, side) ==
    IF side = "left"
    THEN Cardinality({i \in 1..Len(cols) : Rank(cols[i]) < Rank(label)})
    ELSE Cardinality({i \in 1..Len(cols) : Rank(cols[i]) <= Rank(label)})

SliceBoundOkAlways(cols, label) == TRUE

(* a boundary label of a .loc slice is usable when it is a column, or      *)
(* when the column index is sorted: pandas then places an absent label by  *)
(* searchsorted, and raises KeyError otherwise.  No layout of Layouts is   *)
(* in decreasing order, so that branch of pandas is not modelled           *)
SliceBoundOk(cols, label) ==
    label \in ColSet(cols) \/ IsMonotonicIncreasing(cols)

(* dFrame.loc[:, lo:hi] : the positions of the selected columns; both      *)
(* boundary labels are inclusive                                           *)
LocSlice(cols, lo, hi) ==
    LET first == IF lo \in ColSet(cols) THEN Pos(cols, lo)
                 ELSE SearchSorted(cols, lo, "left") + 1
        last  == IF hi \in ColSet(cols) THEN Pos(cols, hi)
                 ELSE SearchSorted(cols, hi, "right")
    IN  [i \in 1..(IF last >= first THEN last - first + 1 ELSE 0)
            |-> cols[first + i - 1]]

(* Series.unique(): distinct values in order of first appearance; all      *)
(* NaN cells count as one value                                            *)
RECURSIVE UniqueFrom(_, _, _, _)
UniqueFrom(frame, col, r, acc) ==
    IF r > NRows(frame) THEN acc
    ELSE LET v == frame[r][col]
         IN  UniqueFrom(frame, col, r + 1,
                 IF \E i \in 1..Len(acc) : acc[i] = v THEN acc
                 ELSE Append(acc, v))

Unique(frame, col) == UniqueFrom(frame, col, 1, <<>>)

(***************************************************************************)
(* classfill                                                               *)
(***************************************************************************)
(* names bound at module level by the import statements of each file *)
EnigmaLibraryGlobals == {"np", "neuroCombat", "StandardScaler",
                         "train_test_split", "SMOTE"}

TransformationsGlobals == {}

(* idx = siteIdx & classIdx, as the set of rows where the mask is True *)
GroupIdx(frame, cc, sc, site, cls) ==
    {r \in 1..NRows(frame) : Eq(frame[r][sc], site) /\ Eq(frame[r][cc], cls)}

RECURSIVE SumRows(_, _, _)
SumRows(data, c, rows) ==
    IF rows = {} THEN Num(0)
    ELSE LET r == CHOOSE x \in rows : TRUE
         IN  Add(data[r][c], SumRows(data, c, rows \ {r}))

NanMeanZeroFill(data, c, idx) ==
    LET present == {r \in idx : ~IsNull(data[r][c])}
    IN  IF idx = {} THEN NaN
        ELSE DivInt(SumRows(data, c, present), Cardinality(idx))

NanMeanWholeColumn(data, c, idx) ==
    LET present == {r \in 1..NRows(data) : ~IsNull(data[r][c])}
    IN  IF present = {} THEN NaN
        ELSE DivInt(SumRows(data, c, present), Cardinality(present))

(* np.nanmean(data.iloc[:, col][idx]): the mean of the non-NaN cells of    *)
(* column c in the rows of idx; NaN (with a RuntimeWarning) if none        *)
NanMean(data, c, idx) ==
    LET present == {r \in idx : ~IsNull(data[r][c])}
    IN  IF present = {} THEN NaN
        ELSE DivInt(SumRows(data, c, present), Cardinality(present))

Assign(data, c, rows, v) ==
    [r \in 1..NRows(data) |->
        IF r \in rows THEN [data[r] EXCEPT ![c] = v] ELSE data[r]]

FillColumnOverwrite(data, c, idx) ==
    LET nanIdx_i == {r \in idx : IsNull(data[r][c])}
    IN  IF Cardinality(nanIdx_i) > 0
        THEN Assign(data, c, idx, NanMean(data, c, idx))
        ELSE data

FillColumnFirstOnly(data, c, idx) ==
    LET nanIdx_i == {r \in idx : IsNull(data[r][c])}
    IN  IF Cardinality(nanIdx_i) > 0
        THEN Assign(data, c,
                    {r \in nanIdx_i : \A q \in nanIdx_i : r <= q},
                    NanMean(data, c, idx))
        ELSE data

FillColumnAnyRow(data, c, idx) ==
    LET nanIdx == {r \in 1..NRows(data) : IsNull(data[r][c])}
    IN  IF Cardinality(nanIdx) > 0 /\ idx # {}
        THEN Assign(data, c, nanIdx, NanMean(data, c, idx))
        ELSE data

(* lines 39-43: one column of one (site, class) group.  The assignment of   *)
(* line 43 goes through data.iloc[:, col]; it is modelled as writing into  *)
(* data, which is what pandas does when copy-on-write is off               *)
FillColumn(data, c, idx) ==
    LET nanIdx_i == {r \in idx : IsNull(data[r][c])}
    IN  IF Cardinality(nanIdx_i) > 0
        THEN Assign(data, c, nanIdx_i, NanMean(data, c, idx))
        ELSE data

(* line 38: for col in range(len(data.columns)) *)
RECURSIVE ForCols(_, _, _, _)
ForCols(data, colSeq, i, idx) ==
    IF i > Len(colSeq) THEN data
    ELSE ForCols(FillColumn(data, colSeq[i], idx), colSeq, i + 1, idx)

(* line 35: for cls in uniqClass *)
RECURSIVE ForClasses(_, _, _, _, _, _, _, _)
ForClasses(data, frame, cc, sc, site, classSeq, j, colSeq) ==
    IF j > Len(classSeq) THEN data
    ELSE ForClasses(
             ForCols(data, colSeq, 1, GroupIdx(frame, cc, sc, site, classSeq[j])),
             frame, cc, sc, site, classSeq, j + 1, colSeq)

(* line 33: for site in uniqSites *)
RECURSIVE ForSites(_, _, _, _, _, _, _, _)
ForSites(data, frame, cc, sc, siteSeq, k, classSeq, colSeq) ==
    IF k > Len(siteSeq) THEN data
    ELSE ForSites(
             ForClasses(data, frame, cc, sc, siteSeq[k], classSeq, 1, colSeq),
             frame, cc, sc, siteSeq, k + 1, classSeq, colSeq)

(* line 32: data = dFrame.loc[:, idxRange[0]:idxRange[1]].  The masks of    *)
(* lines 34 and 36 read dFrame and the fills write data; whether data      *)
(* shares memory with dFrame makes no difference, as the site and class    *)
(* cells a mask reads are never written                                    *)
Extract(frame, dataCols) ==
    LET selected == ColSet(dataCols)
    IN  [r \in 1..NRows(frame) |-> [c \in selected |-> frame[r][c]]]

(* line 44: dFrame.loc[:, idxRange[0]:idxRange[1]] = data *)
WriteBack(frame, data, dataCols) ==
    LET selected == ColSet(dataCols)
    IN  [r \in 1..NRows(frame) |->
            [c \in DOMAIN frame[r] |->
                IF c \in selected THEN data[r][c] ELSE frame[r][c]]]

ClassFillErrorEmptyCheck(globals, cols, frame, cc, sc, rng) ==
    IF cc \notin ColSet(cols) \/ sc \notin ColSet(cols) THEN "KeyError"
    ELSE IF ~SliceBoundOk(cols, rng[1]) \/ ~SliceBoundOk(cols, rng[2])
    THEN "KeyError"
    ELSE IF NRows(frame) = 0 THEN "ValueError"
    ELSE IF "np" \notin globals /\ Len(LocSlice(cols, rng[1], rng[2])) > 0
    THEN "NameError"
    ELSE "none"

(* the exception classfill raises, "none" if it returns.  Lines 28, 29:    *)
(* dFrame[classCol], dFrame[siteCol]; line 32: the .loc slice; line 41:    *)
(* the first use of np, reached once a site, a class and a column exist    *)
ClassFillError(globals, cols, frame, cc, sc, rng) ==
    IF cc \notin ColSet(cols) \/ sc \notin ColSet(cols) THEN "KeyError"
    ELSE IF ~SliceBoundOk(cols, rng[1]) \/ ~SliceBoundOk(cols, rng[2])
    THEN "KeyError"
    ELSE IF /\ "np" \notin globals
            /\ NRows(frame) > 0
            /\ Len(LocSlice(cols, rng[1], rng[2])) > 0
    THEN "NameError"
    ELSE "none"

(* lines 32-44 with the three enumerations given as sequences *)
ClassFillLoop(cols, frame, cc, sc, rng, siteSeq, classSeq, colSeq) ==
    LET dataCols == LocSlice(cols, rng[1], rng[2])
        data     == Extract(frame, dataCols)
    IN  WriteBack(frame,
                  ForSites(data, frame, cc, sc, siteSeq, 1, classSeq, colSeq),
                  dataCols)

(* classfill(dFrame, classCol, siteCol, idxRange) run in a module whose    *)
(* global names are globals: the exception and the frame left behind       *)
classfill(globals, cols, frame, cc, sc, rng) ==
    LET err == ClassFillError(globals, cols, frame, cc, sc, rng)
    IN  IF err # "none" THEN [error |-> err, frame |-> frame]
        ELSE [error |-> "none",
              frame |-> ClassFillLoop(cols, frame, cc, sc, rng,
                                      Unique(frame, sc), Unique(frame, cc),
                                      LocSlice(cols, rng[1], rng[2]))]

(***************************************************************************)
(* minorityclass                                                           *)
(***************************************************************************)
NoResult == <<NaN, -1>>

(* line 65: np.sum(dFrame.loc[:, classCol] == classVal) *)
CountEq(frame, cc, classVal) ==
    Cardinality({r \in 1..NRows(frame) : Eq(frame[r][cc], classVal)})

(* lines 63-65 *)
NClass(frame, cc, uniqClass) ==
    [i \in 1..Len(uniqClass) |-> CountEq(frame, cc, uniqClass[i])]

(* np.argmin, np.argmax: the first position of the extreme value *)
ArgMin(a) ==
    CHOOSE i \in 1..Len(a) :
        /\ \A j \in 1..Len(a) : a[i] <= a[j]
        /\ \A j \in 1..(i - 1) : a[j] > a[i]

ArgMax(a) ==
    CHOOSE i \in 1..Len(a) :
        /\ \A j \in 1..Len(a) : a[i] >= a[j]
        /\ \A j \in 1..(i - 1) : a[j] < a[i]

(* minorityclass(dFrame, classCol) run in a module whose global names are  *)
(* globals: the exception, and (minorClass, disparity) if it returns.      *)
(* Line 62 raises KeyError, line 63 is the first use of np, line 66 is     *)
(* argmin of an empty array                                                *)
minorityclass(globals, cols, frame, cc) ==
    IF cc \notin ColSet(cols) THEN [error |-> "KeyError", result |-> NoResult]
    ELSE IF "np" \notin globals
    THEN [error |-> "NameError", result |-> NoResult]
    ELSE LET uniqClass == Unique(frame, cc)
             nClass    == NClass(frame, cc, uniqClass)
         IN  IF Len(uniqClass) = 0
             THEN [error |-> "ValueError", result |-> NoResult]
             ELSE [error  |-> "none",
                   result |-> <<uniqClass[ArgMin(nClass)],
                                nClass[ArgMax(nClass)] - nClass[ArgMin(nClass)]>>]

(***************************************************************************)
(* Inputs                                                                  *)
(***************************************************************************)
LabelCells(labels) == {Num(l) : l \in labels} \cup {NaN}

(* Row r of an input frame: its site and class labels are free, its first  *)
(* feature is missing or the measurement r, its second feature is missing  *)
(* in the odd rows, and age, a column no call has in its range, is missing *)
(* in the even rows                                                        *)
MakeRow(r, site, cls, f1Missing) ==
    [c \in ColSet(UnsortedLayout) |->
        CASE c = "site"  -> site
          [] c = "class" -> cls
          [] c = "f1"    -> IF f1Missing THEN NaN ELSE Num(r)
          [] c = "f2"    -> IF r % 2 = 1 THEN NaN ELSE Num(10 * r)
          [] OTHER       -> IF r % 2 = 0 THEN NaN ELSE Num(30 + r)]

(* a column layout together with the feature range of a valid call *)
ValidShapes == {<<UnsortedLayout, <<"f1", "f2">> >>}

AnyShapes == Layouts \X (AbsentRanges \cup ValidRanges)

InitInputs(maxRows, siteCells, classCells, shapes, classCols, siteCols) ==
    /\ \E n \in 0..maxRows :
         \E sites \in [1..n -> siteCells],
            classes \in [1..n -> classCells],
            missing \in [1..n -> BOOLEAN] :
              dFrame0 = [r \in 1..n |->
                            MakeRow(r, sites[r], classes[r], missing[r])]
    /\ \E shape \in shapes : columns = shape[1] /\ idxRange = shape[2]
    /\ classCol \in classCols
    /\ siteCol \in siteCols
    /\ dFrame = dFrame0
    /\ error = "none"
    /\ result = NoResult
    /\ calls = 0
    /\ op = "none"
    /\ dFrameT = dFrame0
    /\ errorT = "none"
    /\ resultT = NoResult
    /\ callsT = 0

(* valid calls: both grouping columns exist, the range is f1..f2 *)
Init == InitInputs(MaxRows, LabelCells(SiteLabels), LabelCells(ClassLabels),
                   ValidShapes, {"class"}, {"site"})

(* any call: column names and range boundaries that may be absent, on a    *)
(* sorted or an unsorted column index                                      *)
InitErr == InitInputs(MaxRowsErr, LabelCells(SiteLabels),
                      LabelCells(ClassLabels), AnyShapes,
                      ClassColNames, SiteColNames)

(* valid calls on frames whose class labels are all present *)
InitOrder == InitInputs(MaxRows, LabelCells(SiteLabels),
                        {Num(l) : l \in ClassLabels},
                        ValidShapes, {"class"}, {"site"})

inputs == <<columns, dFrame0, classCol, siteCol, idxRange>>

copyT == <<dFrameT, errorT, resultT, callsT>>

(***************************************************************************)
(* Operations                                                              *)
(***************************************************************************)
(* the first call of enigmalibrary's classfill on the input frame *)
CallClassFill ==
    /\ calls = 0
    /\ LET out == classfill(EnigmaLibraryGlobals, columns, dFrame,
                            classCol, siteCol, idxRange)
       IN  /\ dFrame' = out.frame
           /\ error' = out.error
    /\ calls' = 1
    /\ op' = "classfill"
    /\ UNCHANGED <<inputs, result, copyT>>

(* classfill called again, with the same arguments, on the frame the       *)
(* first call returned                                                     *)
CallClassFillAgain ==
    /\ calls = 1
    /\ op = "classfill"
    /\ error = "none"
    /\ LET out == classfill(EnigmaLibraryGlobals, columns, dFrame,
                            classCol, siteCol, idxRange)
       IN  /\ dFrame' = out.frame
           /\ error' = out.error
    /\ calls' = 2
    /\ UNCHANGED <<inputs, result, op, copyT>>

Next == CallClassFill \/ CallClassFillAgain

Spec == Init /\ [][Next]_vars

SpecErr == InitErr /\ [][Next]_vars

(* the sequences that enumerate the elements of seq in every order *)
Orderings(seq) ==
    {[i \in 1..Len(seq) |-> seq[p[i]]] :
        p \in {q \in [1..Len(seq) -> 1..Len(seq)] :
                 \A i, j \in 1..Len(seq) : q[i] = q[j] => i = j}}

(* classfill with its three loops enumerating the sites, the classes and   *)
(* the feature columns in an arbitrary order                               *)
CallClassFillReordered ==
    /\ calls = 0
    /\ ClassFillError(EnigmaLibraryGlobals, columns, dFrame,
                      classCol, siteCol, idxRange) = "none"
    /\ \E siteSeq \in Orderings(Unique(dFrame, siteCol)),
          classSeq \in Orderings(Unique(dFrame, classCol)),
          colSeq \in Orderings(LocSlice(columns, idxRange[1], idxRange[2])) :
            dFrame' = ClassFillLoop(columns, dFrame, classCol, siteCol,
                                    idxRange, siteSeq, classSeq, colSeq)
    /\ calls' = 1
    /\ op' = "classfill"
    /\ UNCHANGED <<inputs, error, result, copyT>>

NextOrder == CallClassFillReordered

SpecOrder == InitOrder /\ [][NextOrder]_vars

(* enigmalibrary's minorityclass on the input frame *)
CallMinorityClass ==
    /\ calls = 0
    /\ LET out == minorityclass(EnigmaLibraryGlobals, columns, dFrame, classCol)
       IN  /\ error' = out.error
           /\ result' = out.result
    /\ calls' = 1
    /\ op' = "minorityclass"
    /\ UNCHANGED <<inputs, dFrame, copyT>>

NextMinority == CallMinorityClass

SpecMinority == Init /\ [][NextMinority]_vars

(* One routine, classfill or minorityclass, is run from both files on the  *)
(* same input: enigmalibrary's copy on dFrame, the transformations copy on *)
(* dFrameT                                                                 *)
CallLibraryCopy ==
    /\ calls = 0
    /\ \E o \in {"classfill", "minorityclass"} :
         /\ op \in {"none", o}
         /\ op' = o
         /\ IF o = "classfill"
            THEN LET out == classfill(EnigmaLibraryGlobals, columns, dFrame,
                                      classCol, siteCol, idxRange)
                 IN  /\ dFrame' = out.frame
                     /\ error' = out.error
                     /\ result' = result
            ELSE LET out == minorityclass(EnigmaLibraryGlobals, columns,
                                          dFrame, classCol)
                 IN  /\ dFrame' = dFrame
                     /\ error' = out.error
                     /\ result' = out.result
    /\ calls' = 1
    /\ UNCHANGED <<inputs, copyT>>

CallTransformationsCopy ==
    /\ callsT = 0
    /\ \E o \in {"classfill", "minorityclass"} :
         /\ op \in {"none", o}
         /\ op' = o
         /\ IF o = "classfill"
            THEN LET out == classfill(TransformationsGlobals, columns, dFrameT,
                                      classCol, siteCol, idxRange)
                 IN  /\ dFrameT' = out.frame
                     /\ errorT' = out.error
                     /\ resultT' = resultT
            ELSE LET out == minorityclass(TransformationsGlobals, columns,
                                          dFrameT, classCol)
                 IN  /\ dFrameT' = dFrameT
                     /\ errorT' = out.error
                     /\ resultT' = out.result
    /\ callsT' = 1
    /\ UNCHANGED <<inputs, dFrame, error, result, calls>>

NextCopies == CallLibraryCopy \/ CallTransformationsCopy

SpecCopies == InitErr /\ [][NextCopies]_vars

(***************************************************************************)
(* Properties                                                              *)
(***************************************************************************)
Rows == 1..NRows(dFrame0)

(* the columns from the first to the second boundary label, both present *)
FeatureRange ==
    {columns[i] : i \in {j \in 1..Len(columns) :
        /\ \E a \in 1..j : columns[a] = idxRange[1]
        /\ \E b \in j..Len(columns) : columns[b] = idxRange[2]}}

ArgsPresent ==
    {classCol, siteCol, idxRange[1], idxRange[2]} \subseteq ColSet(columns)

(* row r has a site label and a class label *)
Grouped(r) == dFrame0[r][siteCol] # NaN /\ dFrame0[r][classCol] # NaN

(* the rows of the (site, class) group of a grouped row r *)
Group(r) ==
    {q \in Rows : /\ dFrame0[q][siteCol] = dFrame0[r][siteCol]
                  /\ dFrame0[q][classCol] = dFrame0[r][classCol]}

(* the rows of r's group whose cell of column c was not missing *)
Present(r, c) == {q \in Group(r) : dFrame0[q][c] # NaN}

RECURSIVE SumNum(_, _)
SumNum(rows, c) ==
    IF rows = {} THEN 0
    ELSE LET q == CHOOSE x \in rows : TRUE
         IN  dFrame0[q][c][1] + SumNum(rows \ {q}, c)

(* cell v is the mean of the input cells of column c in rows (the input    *)
(* cells are whole numbers)                                                *)
IsMeanOf(v, rows, c) ==
    v # NaN /\ v[1] * Cardinality(rows) = v[2] * SumNum(rows, c)

FirstCallDone == calls = 1 /\ op = "classfill"

FirstCallReturned == FirstCallDone /\ error = "none"

(* C1: after classfill returns, every feature-range cell that was missing  *)
(* and whose (site, class) group had a non-missing value in that column    *)
(* holds exactly the mean of the group's values that were non-missing      *)
C1_FilledWithGroupMean ==
    FirstCallReturned =>
        \A r \in Rows : \A c \in FeatureRange :
            (Grouped(r) /\ dFrame0[r][c] = NaN /\ Present(r, c) # {})
                => IsMeanOf(dFrame[r][c], Present(r, c), c)

(* a missing cell was filled with the mean of two values of its group *)
C1_Witness ==
    /\ FirstCallReturned
    /\ \E r \in Rows : \E c \in FeatureRange :
          /\ Grouped(r)
          /\ dFrame0[r][c] = NaN
          /\ Cardinality(Present(r, c)) >= 2
          /\ dFrame[r][c] # NaN

(* C2: classfill changes nothing but feature-range cells that were         *)
(* missing: the frame keeps its rows and columns, every cell outside the   *)
(* range and every non-missing cell inside it keeps its value              *)
C2_OnlyMissingRangeCellsChange ==
    FirstCallDone =>
        /\ NRows(dFrame) = NRows(dFrame0)
        /\ \A r \in Rows :
              /\ DOMAIN dFrame[r] = DOMAIN dFrame0[r]
              /\ \A c \in DOMAIN dFrame0[r] :
                    (c \notin FeatureRange \/ dFrame0[r][c] # NaN)
                        => dFrame[r][c] = dFrame0[r][c]

(* a call filled a cell of a group that also has a non-missing cell in     *)
(* that column, while a column outside the range had a missing cell        *)
C2_Witness ==
    /\ FirstCallReturned
    /\ \E r \in Rows : \E c \in FeatureRange :
          /\ dFrame0[r][c] = NaN
          /\ dFrame[r][c] # NaN
          /\ \E q \in Group(r) : dFrame0[q][c] # NaN
    /\ \E r \in Rows : \E c \in ColSet(columns) \ FeatureRange :
          dFrame0[r][c] = NaN

C5_Idempotent ==
    [][(calls = 1 /\ calls' = 2) => (dFrame' = dFrame /\ error' = "none")]_vars

(* the second call ran on a frame the first call had filled in part: a     *)
(* cell was filled and a cell of a grouped row is still missing            *)
C5_Witness ==
    /\ calls = 2
    /\ error = "none"
    /\ \E r \in Rows : \E c \in FeatureRange :
          dFrame0[r][c] = NaN /\ dFrame[r][c] # NaN
    /\ \E r \in Rows : \E c \in FeatureRange :
          Grouped(r) /\ dFrame[r][c] = NaN

(* C6: whatever the order in which the sites, the classes and the feature  *)
(* columns are enumerated, classfill leaves the frame that the order of    *)
(* the code (order of first appearance, columns left to right) leaves      *)
C6_OrderIndependent ==
    FirstCallDone =>
        dFrame = classfill(EnigmaLibraryGlobals, columns, dFrame0,
                           classCol, siteCol, idxRange).frame

(* a call over two sites and two classes that filled cells in two columns  *)
C6_Witness ==
    /\ FirstCallDone
    /\ Cardinality({dFrame0[r][siteCol] : r \in Rows}) >= 2
    /\ Cardinality({dFrame0[r][classCol] : r \in Rows}) >= 2
    /\ \A c \in FeatureRange :
          \E r \in Rows : dFrame0[r][c] = NaN /\ dFrame[r][c] # NaN

(* the column labels are in increasing alphabetical order *)
ColumnsIncreasing ==
    \A i, j \in 1..Len(columns) :
        i < j => Rank(columns[i]) < Rank(columns[j])

(* the column labels are in increasing or in decreasing order *)
ColumnsMonotonic ==
    \/ ColumnsIncreasing
    \/ \A i, j \in 1..Len(columns) :
          i < j => Rank(columns[i]) > Rank(columns[j])

BoundaryAbsent ==
    idxRange[1] \notin ColSet(columns) \/ idxRange[2] \notin ColSet(columns)

GroupColAbsent ==
    classCol \notin ColSet(columns) \/ siteCol \notin ColSet(columns)

(* C7 as stated: with the class column, the site column or a boundary      *)
(* label of the range absent, classfill fails with an invalid-column       *)
(* error and leaves the frame as it was                                    *)
C7_Original ==
    (FirstCallDone /\ (GroupColAbsent \/ BoundaryAbsent))
        => (error = "KeyError" /\ dFrame = dFrame0)

(* C7 amended: with the class column or the site column absent, or with a  *)
(* boundary label absent from a column index that is not monotonic,        *)
(* classfill fails with KeyError and leaves the frame as it was; with both *)
(* grouping columns present and the column labels in increasing order, an  *)
(* absent boundary label raises no error                                   *)
C7_InvalidColumnFailsBeforeWriting ==
    FirstCallDone =>
        /\ (GroupColAbsent \/ (BoundaryAbsent /\ ~ColumnsMonotonic))
              => (error = "KeyError" /\ dFrame = dFrame0)
        /\ (~GroupColAbsent /\ BoundaryAbsent /\ ColumnsIncreasing)
              => error = "none"

(* a call with an absent boundary label on an unsorted index failed on a   *)
(* frame in which it had a cell to fill                                    *)
C7_Witness ==
    /\ FirstCallDone
    /\ error = "KeyError"
    /\ ~GroupColAbsent
    /\ BoundaryAbsent
    /\ ~ColumnsMonotonic
    /\ \E r \in Rows :
          /\ Grouped(r)
          /\ dFrame0[r]["f1"] = NaN
          /\ \E q \in Group(r) : dFrame0[q]["f1"] # NaN

(* C8 as stated: classfill on a frame with zero rows fails *)
C8_Original ==
    (FirstCallDone /\ NRows(dFrame0) = 0) => error # "none"

(* C8 amended: with the class column, the site column and both boundary    *)
(* labels present, classfill on a frame with zero rows raises no error     *)
(* and returns the frame unchanged, with zero rows                         *)
C8_EmptyFrameReturned ==
    (FirstCallDone /\ NRows(dFrame0) = 0 /\ ArgsPresent)
        => (error = "none" /\ dFrame = dFrame0)

(* a valid call on a frame with zero rows has returned *)
C8_Witness ==
    /\ FirstCallReturned
    /\ NRows(dFrame0) = 0
    /\ ArgsPresent
    /\ NRows(dFrame) = 0

Occurrences(v) == Cardinality({r \in Rows : dFrame0[r][classCol] = v})

ClassValues == {dFrame0[r][classCol] : r \in Rows}

(* C3: on a non-empty frame minorityclass returns a label with the fewest  *)
(* occurrences in the class column and the difference between the largest  *)
(* and the smallest number of occurrences, which is 0 exactly when all     *)
(* labels occur equally often                                              *)
C3_MinorityAndDisparity ==
    (calls = 1 /\ op = "minorityclass" /\ NRows(dFrame0) > 0) =>
        /\ error = "none"
        /\ result[1] \in ClassValues
        /\ \A v \in ClassValues : Occurrences(result[1]) <= Occurrences(v)
        /\ \E v \in ClassValues :
              /\ \A w \in ClassValues : Occurrences(w) <= Occurrences(v)
              /\ result[2] = Occurrences(v) - Occurrences(result[1])
        /\ result[2] >= 0
        /\ (result[2] = 0) <=>
              (\A v, w \in ClassValues : Occurrences(v) = Occurrences(w))

(* C9: the copy of a routine in transformations/enigmatransformations.py   *)
(* returns what the copy in enigmalibrary/enigmatransforms.py returns on   *)
(* the same input, or fails the same way                                   *)
C9_CopiesEquivalent ==
    (calls = 1 /\ callsT = 1) =>
        /\ errorT = error
        /\ dFrameT = dFrame
        /\ resultT = result

====
